---- MODULE Spec2Model ----
(***************************************************************************)
(* Model of scripts/dashboard.py: the Dash application that filters the    *)
(* loaded records table by country and achievement type and renders the    *)
(* result as the rows of the achievements table.                           *)
(*                                                                         *)
(* A pandas cell is a record [kind, s, n]: a string, an integer or a       *)
(* null (None / NaN).  A DataFrame is a sequence of entries                *)
(* [index |-> label, row |-> columns]; the index label is what pandas      *)
(* carries through boolean masking and sort_values until reset_index.      *)
(***************************************************************************)
EXTENDS Integers, Sequences, FiniteSets, TLC

VARIABLES data, country_options, achievement_options,
          selected_country, selected_achievement_type,
          rendered, table_data, sorted_index, loaded,
          first_render, filters_changed

vars == <<data, country_options, achievement_options,
          selected_country, selected_achievement_type,
          rendered, table_data, sorted_index, loaded,
          first_render, filters_changed>>

----------------------------------------------------------------------------
(* Cells *)

Null == [kind |-> "null", s |-> "", n |-> 0]

StrCell(x) == [kind |-> "str", s |-> x, n |-> 0]

IntCell(x) == [kind |-> "int", s |-> "", n |-> x]

\* pd.notna(cell)
notna(cell) == cell.kind # "null"

\* Variant: `is not None` in place of truthiness, so "" filters too.
truthy_not_none(value) == value.kind = "str"

\* Python truthiness of a dropdown value: None and "" are falsy.
truthy(value) == value.kind = "str" /\ value.s # ""

\* Element of the mask `column == selected`: a null cell never compares equal.
cell_eq(cell, selected) == cell.kind = "str" /\ cell.s = selected.s

----------------------------------------------------------------------------
(* The records the loaded table is drawn from *)

Rec(name, country, atype, tier, cur, high, gold, silver, bronze, profile) ==
    [DisplayName |-> StrCell(name), Country |-> country, AchievementType |-> StrCell(atype),
     Tier |-> IntCell(tier), CurrentRanking |-> IntCell(cur), HighestRanking |-> IntCell(high),
     TotalGold |-> gold, TotalSilver |-> silver, TotalBronze |-> bronze,
     Profile |-> profile]

Catalogue ==
    << Rec("alice", StrCell("US"), "Competitions", 2, 10, 5, IntCell(3), IntCell(0), Null,
           StrCell("https://www.kaggle.com/alice")),
       Rec("bob", StrCell("US"), "Competitions", 0, 10, 10, Null, IntCell(1), IntCell(2), Null),
       Rec("carol", StrCell("US"), "Datasets", 4, 30, 1, IntCell(12), Null, IntCell(0),
           StrCell("https://www.kaggle.com/carol")),
       Rec("dave", StrCell("PL"), "Competitions", 1, 10, 7, IntCell(0), IntCell(0), IntCell(0),
           StrCell("https://www.kaggle.com/dave")),
       Rec("erin", StrCell("PL"), "Datasets", 3, 50, 30, Null, Null, Null,
           StrCell("https://www.kaggle.com/erin")),
       Rec("frank", Null, "Competitions", 9, 30, 30, IntCell(1), IntCell(2), IntCell(3), Null),
       Rec("grace", Null, "Datasets", 0, 10, 10, IntCell(0), IntCell(5), Null,
           StrCell("https://www.kaggle.com/grace")),
       Rec("heidi", StrCell("US"), "Competitions", 3, 50, 10, IntCell(7), IntCell(0), IntCell(1),
           StrCell("https://www.kaggle.com/heidi")) >>

\* Longest table drawn freely from the catalogue.
MaxLen == 3

\* A DataFrame with a RangeIndex 0..n-1 over the given rows.
Frame(rows) == [i \in 1..Len(rows) |-> [index |-> i - 1, row |-> rows[i]]]

RECURSIVE SeqsUpTo(_, _)
SeqsUpTo(S, n) ==
    IF n = 0 THEN {<<>>}
    ELSE LET shorter == SeqsUpTo(S, n - 1)
         IN shorter \cup {Append(q, x) : q \in {r \in shorter : Len(r) = n - 1}, x \in S}

\* numpy's introsort sorts a range of at most SMALL_QUICKSORT + 1 elements by
\* insertion and partitions anything longer (npysort, reached through the
\* default kind='quicksort' of DataFrame.sort_values).
SMALL_QUICKSORT == 16

\* The shortest table whose unfiltered sort partitions.
BigLen == SMALL_QUICKSORT + 2

\* How many long tables are loaded: the catalogue repeated, from each offset.
NumBig == 2

BigTables ==
    {Frame([i \in 1..BigLen |-> Catalogue[((i + k) % Len(Catalogue)) + 1]]) : k \in 1..NumBig}

SmallTables == {Frame(rows) : rows \in SeqsUpTo({Catalogue[i] : i \in 1..Len(Catalogue)}, MaxLen)}

\* Values a dropdown callback can be invoked with: None, "", a listed value,
\* a value no record has.
CountryInputs == {Null, StrCell(""), StrCell("US"), StrCell("PL"), StrCell("Atlantis")}

AchievementInputs == {Null, StrCell(""), StrCell("Competitions"), StrCell("Datasets")}

\* The strings of the model in Python's sort order (code point order).
StrOrder == <<"", "Atlantis", "Competitions", "Datasets", "PL", "US">>

----------------------------------------------------------------------------
(* dashboard.py helpers *)

\* sorted(list of distinct strings)
sorted(S) == SelectSeq(StrOrder, LAMBDA x : x \in S)

\* Series.unique(): the distinct cells of a column.
unique(frame, col) == {frame[i].row[col] : i \in 1..Len(frame)}

get_unique_countries(frame) ==
    sorted({c.s : c \in {x \in unique(frame, "Country") : notna(x)}})

get_unique_achievement_types(frame) ==
    sorted({c.s : c \in {x \in unique(frame, "AchievementType") : notna(x)}})

\* Variant: the second mask is taken from the whole frame, dropping the first.
get_filtered_data_overwrite(frame, country, achievement_type) ==
    IF truthy(achievement_type)
    THEN SelectSeq(frame, LAMBDA e : cell_eq(e.row.AchievementType, achievement_type))
    ELSE IF truthy(country)
         THEN SelectSeq(frame, LAMBDA e : cell_eq(e.row.Country, country))
         ELSE frame

get_filtered_data(frame, country, achievement_type) ==
    LET by_country ==
            IF truthy(country)
            THEN SelectSeq(frame, LAMBDA e : cell_eq(e.row.Country, country))
            ELSE frame
    IN IF truthy(achievement_type)
       THEN SelectSeq(by_country, LAMBDA e : cell_eq(e.row.AchievementType, achievement_type))
       ELSE by_country

----------------------------------------------------------------------------
(* DataFrame.sort_values(by='CurrentRanking', ascending=True), kind='quicksort':
   numpy's argsort of the key column, then take.  The key column is uint16 and
   holds no nulls, so nargsort's null mask selects everything. *)

swap(t, i, j) == [t EXCEPT ![i] = t[j], ![j] = t[i]]

\* The three conditional swaps that leave the median of pl, pm, pr at pm.
median_of_3(v, t, pl, pm, pr) ==
    LET t1 == IF v[t[pm]] < v[t[pl]] THEN swap(t, pm, pl) ELSE t
        t2 == IF v[t1[pr]] < v[t1[pm]] THEN swap(t1, pr, pm) ELSE t1
    IN IF v[t2[pm]] < v[t2[pl]] THEN swap(t2, pm, pl) ELSE t2

\* do ++pi while v[*pi] < vp
RECURSIVE scan_up(_, _, _, _)
scan_up(v, t, pi, vp) == IF v[t[pi]] < vp THEN scan_up(v, t, pi + 1, vp) ELSE pi

\* do --pj while vp < v[*pj]
RECURSIVE scan_down(_, _, _, _)
scan_down(v, t, pj, vp) == IF vp < v[t[pj]] THEN scan_down(v, t, pj - 1, vp) ELSE pj

RECURSIVE partition_loop(_, _, _, _, _)
partition_loop(v, t, pi, pj, vp) ==
    LET i == scan_up(v, t, pi + 1, vp)
        j == scan_down(v, t, pj - 1, vp)
    IN IF i >= j THEN [tosort |-> t, pi |-> i]
       ELSE partition_loop(v, swap(t, i, j), i, j, vp)

\* One quicksort partition of t[pl..pr]; pi is where the pivot ends up.
partition(v, t, pl, pr) ==
    LET pm == pl + ((pr - pl) \div 2)
        m == median_of_3(v, t, pl, pm, pr)
        vp == v[m[pm]]
        p == partition_loop(v, swap(m, pm, pr - 1), pl, pr - 1, vp)
    IN [tosort |-> swap(p.tosort, p.pi, pr - 1), pi |-> p.pi]

\* while pj > pl and vp < v[*pk]: *pj-- = *pk--;  then *pj = vi
RECURSIVE insert(_, _, _, _, _)
insert(v, t, pl, pj, vi) ==
    IF pj > pl /\ v[vi] < v[t[pj - 1]]
    THEN insert(v, [t EXCEPT ![pj] = t[pj - 1]], pl, pj - 1, vi)
    ELSE [t EXCEPT ![pj] = vi]

RECURSIVE insertion_sort(_, _, _, _, _)
insertion_sort(v, t, pl, pi, pr) ==
    IF pi > pr THEN t
    ELSE insertion_sort(v, insert(v, t, pl, pi, t[pi]), pl, pi + 1, pr)

\* The two sides of a partition are disjoint ranges, so the order in which
\* the stack hands them out does not change the result.  The heapsort
\* fallback needs more nested partitions than a table of BigLen rows allows.
RECURSIVE aquicksort(_, _, _, _)
aquicksort(v, t, pl, pr) ==
    IF pr - pl > SMALL_QUICKSORT
    THEN LET p == partition(v, t, pl, pr)
         IN aquicksort(v, aquicksort(v, p.tosort, pl, p.pi - 1), p.pi + 1, pr)
    ELSE insertion_sort(v, t, pl, pl + 1, pr)

argsort(v) == aquicksort(v, [i \in 1..Len(v) |-> i], 1, Len(v))

\* Variant: the sort is left out.
sort_values_unsorted(frame) == frame

sort_values(frame) ==
    LET indexer == argsort([i \in 1..Len(frame) |-> frame[i].row.CurrentRanking.n])
    IN [i \in 1..Len(frame) |-> frame[indexer[i]]]

\* Variant: the index labels of the loaded table are kept.
reset_index_keep(frame) == frame

reset_index(frame) == [i \in 1..Len(frame) |-> [index |-> i - 1, row |-> frame[i].row]]

----------------------------------------------------------------------------
(* update_table: the presentation columns *)

\* .fillna(0).astype(int)
fillna_int(cell) == IF notna(cell) THEN cell.n ELSE 0

\* The three medal glyphs of the source, transliterated.
GoldLabel == "(gold) "

SilverLabel == "(silver) "

BronzeLabel == "(bronze) "

\* Variant: no fillna, a null count is formatted as it stands.
medals_nan(row) ==
    LET fmt(cell) == IF notna(cell) THEN ToString(cell.n) ELSE "nan"
    IN StrCell(GoldLabel \o fmt(row.TotalGold) \o " " \o
               SilverLabel \o fmt(row.TotalSilver) \o " " \o
               BronzeLabel \o fmt(row.TotalBronze))

medals(row) ==
    StrCell(GoldLabel \o ToString(fillna_int(row.TotalGold)) \o " " \o
            SilverLabel \o ToString(fillna_int(row.TotalSilver)) \o " " \o
            BronzeLabel \o ToString(fillna_int(row.TotalBronze)))

profile_link(profile_url) ==
    IF notna(profile_url)
    THEN StrCell("[View Profile](" \o profile_url.s \o ")")
    ELSE StrCell("N/A")

tier_mapping ==
    (0 :> "Novice") @@ (1 :> "Contributor") @@ (2 :> "Expert") @@
    (3 :> "Master") @@ (4 :> "Grandmaster")

\* Variant: Series.map(tier_mapping), which turns a value that is no key into NaN.
replace_tier_map(cell) ==
    IF cell.kind = "int" /\ cell.n \in DOMAIN tier_mapping
    THEN StrCell(tier_mapping[cell.n])
    ELSE Null

\* Series.replace(tier_mapping): a value that is no key stays as it is.
replace_tier(cell) ==
    IF cell.kind = "int" /\ cell.n \in DOMAIN tier_mapping
    THEN StrCell(tier_mapping[cell.n])
    ELSE cell

display_row(entry) ==
    ("No." :> IntCell(entry.index + 1)) @@
    ("DisplayName" :> entry.row.DisplayName) @@
    ("CurrentRanking" :> entry.row.CurrentRanking) @@
    ("HighestRanking" :> entry.row.HighestRanking) @@
    ("Country" :> entry.row.Country) @@
    ("Tier" :> replace_tier(entry.row.Tier)) @@
    ("Medals" :> medals(entry.row)) @@
    ("Profile" :> profile_link(entry.row.Profile))

no_data_row ==
    ("No." :> StrCell("N/A")) @@
    ("DisplayName" :> StrCell("No Data")) @@
    ("CurrentRanking" :> StrCell("N/A")) @@
    ("HighestRanking" :> StrCell("N/A")) @@
    ("Country" :> StrCell("N/A")) @@
    ("Tier" :> StrCell("N/A")) @@
    ("Medals" :> StrCell("N/A")) @@
    ("Profile" :> StrCell("N/A"))

\* filtered_data.empty
empty(frame) == Len(frame) = 0

\* The list of dicts update_table returns.
update_table(frame, country, achievement_type) ==
    LET filtered_data == get_filtered_data(frame, country, achievement_type)
    IN IF ~empty(filtered_data)
       THEN LET numbered == reset_index(sort_values(filtered_data))
            IN [i \in 1..Len(numbered) |-> display_row(numbered[i])]
       ELSE <<no_data_row>>

\* The index labels of the sorted frame, before reset_index drops them.
sorted_labels(frame, country, achievement_type) ==
    LET filtered_data == get_filtered_data(frame, country, achievement_type)
    IN IF ~empty(filtered_data)
       THEN LET s == sort_values(filtered_data) IN [i \in 1..Len(s) |-> s[i].index]
       ELSE <<>>

\* Variant: the filter is applied to the shared frame in place.
data_after_update_filtered(frame, country, achievement_type) ==
    get_filtered_data(frame, country, achievement_type)

\* Variant: the Profile column is rewritten on the shared frame.
data_after_update_profile(frame, country, achievement_type) ==
    [i \in 1..Len(frame) |->
        [frame[i] EXCEPT !.row = [@ EXCEPT !.Profile = profile_link(@)]]]

\* The caller's frame after get_filtered_data and update_table have run on it:
\* the filter works on data.copy(), masking and sort_values build new frames,
\* and every column assignment is made on those.
data_after_update(frame, country, achievement_type) == frame

----------------------------------------------------------------------------
(* The application *)

Tables == SmallTables \cup BigTables

\* create_app(load_data()): the dropdowns hold their defaults and their
\* options, the table has no data yet.
Init ==
    /\ data \in Tables
    /\ loaded = data
    /\ country_options = get_unique_countries(data)
    /\ achievement_options = get_unique_achievement_types(data)
    /\ selected_country = Null
    /\ selected_achievement_type = StrCell("Competitions")
    /\ rendered = FALSE
    /\ table_data = <<>>
    /\ sorted_index = <<>>
    /\ first_render = <<>>
    /\ filters_changed = FALSE

\* One invocation of the callback bound to the two dropdown values.
Callback(country, achievement_type) ==
    /\ selected_country' = country
    /\ selected_achievement_type' = achievement_type
    /\ table_data' = update_table(data, country, achievement_type)
    /\ sorted_index' = sorted_labels(data, country, achievement_type)
    /\ data' = data_after_update(data, country, achievement_type)
    /\ rendered' = TRUE
    /\ UNCHANGED <<country_options, achievement_options, loaded>>

\* Dash fires the callback once with the layout's default values.
\* first_render keeps what this first call returned.
InitialCallback ==
    /\ ~rendered
    /\ Callback(selected_country, selected_achievement_type)
    /\ first_render' = table_data'
    /\ UNCHANGED filters_changed

\* The country dropdown changes (or the callback is requested with any value).
SelectCountry(country) ==
    /\ rendered
    /\ Callback(country, selected_achievement_type)
    /\ filters_changed' = TRUE
    /\ UNCHANGED first_render

SelectAchievementType(achievement_type) ==
    /\ rendered
    /\ Callback(selected_country, achievement_type)
    /\ filters_changed' = TRUE
    /\ UNCHANGED first_render

Next ==
    \/ InitialCallback
    \/ \E country \in CountryInputs : SelectCountry(country)
    \/ \E achievement_type \in AchievementInputs : SelectAchievementType(achievement_type)

Spec == Init /\ [][Next]_vars

----------------------------------------------------------------------------
(* Properties *)

Columns ==
    {"No.", "DisplayName", "CurrentRanking", "HighestRanking",
     "Country", "Tier", "Medals", "Profile"}

\* A filter value that constrains nothing: absent or empty.
NoConstraint(value) == value = Null \/ value = StrCell("")

\* The record satisfies the filter pair, as the specification words it.
Matches(r, country, achievement_type) ==
    /\ NoConstraint(country) \/ r.Country = country
    /\ NoConstraint(achievement_type) \/ r.AchievementType = achievement_type

\* Index labels of the loaded records that satisfy the current filter pair.
MatchingLabels ==
    {loaded[i].index : i \in {j \in 1..Len(loaded) :
        Matches(loaded[j].row, selected_country, selected_achievement_type)}}

\* The loaded record with the given index label.
Source(label) == loaded[label + 1].row

\* The last call returned rows of records, not the "No Data" row.
NonSentinel == rendered /\ sorted_index # <<>>

\* C1: every emitted row comes from a record whose Country equals a non-empty
\* selected country and whose AchievementType equals a non-empty selected
\* achievement type; a record with a null Country is never emitted under a
\* non-empty country.
C1_FilterSoundness ==
    NonSentinel =>
        /\ Len(table_data) = Len(sorted_index)
        /\ \A k \in 1..Len(sorted_index) :
              LET r == Source(sorted_index[k])
              IN /\ table_data[k]["DisplayName"] = r.DisplayName
                 /\ table_data[k]["Country"] = r.Country
                 /\ NoConstraint(selected_country) \/ r.Country = selected_country
                 /\ NoConstraint(selected_achievement_type)
                       \/ r.AchievementType = selected_achievement_type
                 /\ ~NoConstraint(selected_country) => r.Country # Null

C1_Witness ==
    /\ NonSentinel
    /\ ~NoConstraint(selected_country)
    /\ ~NoConstraint(selected_achievement_type)
    /\ Len(table_data) >= 2
    /\ \E i \in 1..Len(loaded) : loaded[i].row.Country = Null
    /\ \E i \in 1..Len(loaded) :
          /\ loaded[i].row.Country = selected_country
          /\ loaded[i].row.AchievementType # selected_achievement_type

\* C2: after any sequence of callbacks the loaded table is what it was at
\* load, and the two enumerators return what they returned at load.
C2_NoMutation ==
    /\ data = loaded
    /\ get_unique_countries(data) = country_options
    /\ get_unique_achievement_types(data) = achievement_options

C2_Witness ==
    /\ rendered
    /\ filters_changed
    /\ table_data = <<no_data_row>>
    /\ Len(country_options) = 2
    /\ Len(achievement_options) = 2

\* C3: a callback's rows depend only on the current filter pair and the table
\* as loaded; a call with the first call's filter pair returns the first
\* call's rows, whatever was selected in between.
C3_Idempotence ==
    rendered =>
        /\ table_data = update_table(loaded, selected_country, selected_achievement_type)
        /\ (selected_country = Null /\ selected_achievement_type = StrCell("Competitions"))
              => table_data = first_render

C3_Witness ==
    /\ rendered
    /\ filters_changed
    /\ selected_country = Null
    /\ selected_achievement_type = StrCell("Competitions")
    /\ Len(table_data) >= 2
    /\ table_data = first_render

\* C4: with no matching record the callback returns one row whose
\* eight fields, DisplayName among them, are all "N/A".
C4_AllFieldsNA ==
    (rendered /\ MatchingLabels = {}) =>
        /\ Len(table_data) = 1
        /\ \A col \in Columns : table_data[1][col] = StrCell("N/A")

\* C5: in a non-sentinel result CurrentRanking never decreases from a row to
\* the next.
C5_SortOrder ==
    NonSentinel =>
        \A i \in 1..(Len(table_data) - 1) :
            table_data[i]["CurrentRanking"].n <= table_data[i + 1]["CurrentRanking"].n

\* The sort had work to do: some record precedes, in the table, one it follows
\* in the result.
C5_Witness ==
    /\ NonSentinel
    /\ Len(table_data) >= 3
    /\ \E i, j \in 1..Len(sorted_index) : i < j /\ sorted_index[i] > sorted_index[j]
    /\ table_data[1]["CurrentRanking"].n < table_data[Len(table_data)]["CurrentRanking"].n

\* C6: records with equal CurrentRanking are emitted in the order they have in
\* the loaded table.
C6_StableTies ==
    NonSentinel =>
        \A i, j \in 1..Len(sorted_index) :
            (i < j /\ Source(sorted_index[i]).CurrentRanking = Source(sorted_index[j]).CurrentRanking)
                => sorted_index[i] < sorted_index[j]

\* C7: the No. values of a non-sentinel result are 1..N in output order, N the
\* number of rows, over the CurrentRanking-ascending sequence; the sentinel
\* row's No. is "N/A".
C7_RowNumbering ==
    rendered =>
        IF sorted_index # <<>>
        THEN /\ Len(table_data) = Len(sorted_index)
             /\ \A k \in 1..Len(table_data) : table_data[k]["No."] = IntCell(k)
             /\ \A i, j \in 1..Len(table_data) :
                   table_data[i]["No."].n < table_data[j]["No."].n
                     => table_data[i]["CurrentRanking"].n <= table_data[j]["CurrentRanking"].n
        ELSE /\ Len(table_data) = 1
             /\ table_data[1]["No."] = StrCell("N/A")

\* Numbering differs from the loaded table's own row positions.
C7_Witness ==
    /\ NonSentinel
    /\ Len(table_data) >= 3
    /\ \E k \in 1..Len(sorted_index) : sorted_index[k] + 1 # k
    /\ table_data[Len(table_data)]["No."] = IntCell(Len(table_data))

TierNames == <<"Novice", "Contributor", "Expert", "Master", "Grandmaster">>

\* C8: a record's Tier 0..4 is shown as its name, any other Tier is shown as
\* it is, and no matching record is lost over it.
C8_TierRelabel ==
    NonSentinel =>
        /\ Len(table_data) = Cardinality(MatchingLabels)
        /\ \A k \in 1..Len(sorted_index) :
              LET tier == Source(sorted_index[k]).Tier
              IN IF tier.n \in 0..4
                 THEN table_data[k]["Tier"] = StrCell(TierNames[tier.n + 1])
                 ELSE table_data[k]["Tier"] = tier

C8_Witness ==
    /\ NonSentinel
    /\ \E k \in 1..Len(table_data) : table_data[k]["Tier"] = IntCell(9)
    /\ \E k \in 1..Len(table_data) : table_data[k]["Tier"] = StrCell("Grandmaster")
    /\ \E k \in 1..Len(table_data) : table_data[k]["Tier"] = StrCell("Novice")

\* A medal count as displayed: the integer, 0 for a null.
Count(cell) == IF cell = Null THEN "0" ELSE ToString(cell.n)

\* C9: the Medals string of every non-sentinel row lists the gold, silver and
\* bronze counts of the row's own record in that order under the fixed
\* labels, a null count as 0.
C9_Medals ==
    NonSentinel =>
        \A k \in 1..Len(sorted_index) :
            LET r == Source(sorted_index[k])
            IN table_data[k]["Medals"] =
                 StrCell("(gold) " \o Count(r.TotalGold) \o " (silver) " \o
                         Count(r.TotalSilver) \o " (bronze) " \o Count(r.TotalBronze))

\* TotalGold=3, TotalSilver=0, TotalBronze=null is shown as 3, 0, 0.
C9_Witness ==
    /\ NonSentinel
    /\ \E k \in 1..Len(sorted_index) :
          /\ Source(sorted_index[k]).TotalBronze = Null
          /\ Source(sorted_index[k]).TotalGold = IntCell(3)
          /\ table_data[k]["Medals"] = StrCell("(gold) 3 (silver) 0 (bronze) 0")
    /\ \E k \in 1..Len(sorted_index) : Source(sorted_index[k]).TotalGold = Null

\* C10: when some record matches, the rows correspond one to one to the
\* matching records, and DisplayName, CurrentRanking, HighestRanking and
\* Country are the record's own.
C10_Completeness ==
    (rendered /\ MatchingLabels # {}) =>
        /\ Len(table_data) = Cardinality(MatchingLabels)
        /\ Len(sorted_index) = Len(table_data)
        /\ {sorted_index[k] : k \in 1..Len(sorted_index)} = MatchingLabels
        /\ \A k \in 1..Len(sorted_index) :
              LET r == Source(sorted_index[k])
              IN /\ table_data[k]["DisplayName"] = r.DisplayName
                 /\ table_data[k]["CurrentRanking"] = r.CurrentRanking
                 /\ table_data[k]["HighestRanking"] = r.HighestRanking
                 /\ table_data[k]["Country"] = r.Country

C10_Witness ==
    /\ rendered
    /\ selected_country = StrCell("")
    /\ selected_achievement_type = StrCell("Datasets")
    /\ Cardinality(MatchingLabels) >= 2
    /\ Cardinality(MatchingLabels) < Len(loaded)
    /\ Len(table_data) = Cardinality(MatchingLabels)
    /\ \E k \in 1..Len(table_data) : table_data[k]["Country"] = Null

====
